---------------------------- MODULE Spec2Model ----------------------------
(***************************************************************************)
(* Model of src/run.py, the LQK site updater: two record extractors       *)
(* (report format and CSV), the date ranking function, the deduplicator,   *)
(* the flat-listing sort, the consolidator and the main pipeline.          *)
(*                                                                         *)
(* A Python str is a sequence of one-character strings; a Python list is   *)
(* a sequence; a car dict is a record with the fields year, make, model,   *)
(* location, available.  A call that may raise returns [exc, val]: exc is  *)
(* TRUE when the call raised and val is then the empty sequence.           *)
(***************************************************************************)
EXTENDS Integers, Sequences, FiniteSets, TLC

VARIABLES
    pc,            \* position of the running function
    date_str,      \* parse_date: its argument
    date_res,      \* parse_date: its outcome
    cars,          \* remove_duplicates / convert_to_site_format / consolidator: the argument
    unique_cars,   \* outcome of remove_duplicates(cars)
    unique_twice,  \* outcome of remove_duplicates(remove_duplicates(cars))
    cars_sorted,   \* outcome of convert_to_site_format(cars)
    consolidated,  \* the list save_to_lqk_consolidated dumps for cars
    input,         \* extractors: the lines (rows) read so far
    current_car,   \* parse_lqk_file: <<>> for the empty dict, <<car>> for an open record
    parsed,        \* extractors: the list cars built so far, returned at the end
    files,         \* main: the input files, [lqk, csv1, csv2]
    all_cars,      \* main: all_cars
    cars_final,    \* main: cars_final
    site_json,     \* main: ../site/cars.json, <<>> when not written, <<content>> when written
    lqk_json,      \* main: LQK.json, likewise
    status         \* main: how it ended

dateVars == <<date_str, date_res>>
coreVars == <<cars, unique_cars, unique_twice, cars_sorted, consolidated>>
extractVars == <<input, current_car, parsed>>
mainVars == <<files, all_cars, cars_final, site_json, lqk_json, status>>
vars == <<pc, dateVars, coreVars, extractVars, mainVars>>

(***************************************************************************)
(* Bounds of the model.                                                    *)
(***************************************************************************)
MaxDateLen == 6
MaxCars == 3
MaxLines == 4
MaxFileLen == 2

(***************************************************************************)
(* Strings.                                                                *)
(***************************************************************************)
StrUpTo(A, n) == UNION {[1..k -> A] : k \in 0..n}

Digits == {"0", "1", "2", "3", "4", "5", "6", "7", "8", "9"}

DigitVal(c) ==
    CASE c = "0" -> 0 [] c = "1" -> 1 [] c = "2" -> 2 [] c = "3" -> 3
      [] c = "4" -> 4 [] c = "5" -> 5 [] c = "6" -> 6 [] c = "7" -> 7
      [] c = "8" -> 8 [] c = "9" -> 9

\* str.split(sep): the pieces of s between the occurrences of sep.
RECURSIVE SplitAcc(_, _, _, _)
SplitAcc(s, sep, done, cur) ==
    IF s = <<>> THEN Append(done, cur)
    ELSE IF Head(s) = sep THEN SplitAcc(Tail(s), sep, Append(done, cur), <<>>)
    ELSE SplitAcc(Tail(s), sep, done, Append(cur, Head(s)))

Split(s, sep) == SplitAcc(s, sep, <<>>, <<>>)

\* int(s) accepts s: over the characters used here (digits, "/", letters)
\* that is a non-empty run of digits; anything else raises ValueError.
IsIntLiteral(s) == Len(s) > 0 /\ \A i \in 1..Len(s) : s[i] \in Digits

RECURSIVE IntOf(_)
IntOf(s) ==
    IF s = <<>> THEN 0
    ELSE 10 * IntOf(SubSeq(s, 1, Len(s) - 1)) + DigitVal(s[Len(s)])

Ok(v) == [exc |-> FALSE, val |-> v]
Raised == [exc |-> TRUE, val |-> <<>>]

(***************************************************************************)
(* parse_date (run.py 151-157).                                            *)
(***************************************************************************)
ZeroRank == <<0, 0, 0>>

parse_date(s) ==
    LET parts == Split(s, "/") IN
    IF Len(parts) = 3
    THEN IF \A i \in 1..3 : IsIntLiteral(parts[i])
         THEN Ok(<<IntOf(parts[3]), IntOf(parts[1]), IntOf(parts[2])>>)
         ELSE Raised
    ELSE Ok(ZeroRank)

\* Python's tuple order on ranks.
RankLess(a, b) ==
    \/ a[1] < b[1]
    \/ a[1] = b[1] /\ a[2] < b[2]
    \/ a[1] = b[1] /\ a[2] = b[2] /\ a[3] < b[3]

(***************************************************************************)
(* Sample strings the records of the model are built from.                 *)
(***************************************************************************)
Y2015 == <<"2", "0", "1", "5">>
Y2020 == <<"2", "0", "2", "0">>
DEarly == <<"1", "/", "1", "/", "2", "0", "2", "1">>      \* "1/1/2021"
DLate == <<"2", "/", "1", "/", "2", "0", "2", "1">>       \* "2/1/2021"
DEmpty == <<>>                                            \* ""
DBad == <<"a", "/", "b", "/", "c">>                       \* "a/b/c": int("a") raises
Loc1 == <<"L", "1">>
Loc2 == <<"L", "2">>

Car(y, mk, md, loc, av) ==
    [year |-> y, make |-> mk, model |-> md, location |-> loc, available |-> av]

CoreKeys == {<<Y2015, <<"A">>, <<"B">>>>, <<Y2020, <<"A">>, <<"B">>>>,
             <<Y2015, <<"A">>, <<"C">>>>}
CoreDates == {DEarly, DLate, DEmpty, DBad}
CoreLocs == {Loc1, Loc2}
CoreCars == {Car(k[1], k[2], k[3], l, d) : k \in CoreKeys, l \in CoreLocs, d \in CoreDates}

(***************************************************************************)
(* sorted(xs, key=lambda x: parse_date(x['available']), reverse=True)      *)
(* (run.py 140 and 166).  sorted computes every key first, so it raises as *)
(* soon as one key raises; it is stable, and reverse=True keeps the input  *)
(* order of elements with equal keys.                                      *)
(***************************************************************************)
Rank(car) == parse_date(car.available).val

\* x goes before the first element of strictly lower rank.
RECURSIVE InsertDesc(_, _)
InsertDesc(sorted, x) ==
    IF sorted = <<>> THEN <<x>>
    ELSE IF RankLess(Rank(Head(sorted)), Rank(x)) THEN <<x>> \o sorted
    ELSE <<Head(sorted)>> \o InsertDesc(Tail(sorted), x)

RECURSIVE SortDesc(_)
SortDesc(xs) ==
    IF xs = <<>> THEN <<>>
    ELSE InsertDesc(SortDesc(SubSeq(xs, 1, Len(xs) - 1)), xs[Len(xs)])

sorted_by_date_desc(xs) ==
    IF \E i \in 1..Len(xs) : parse_date(xs[i].available).exc
    THEN Raised
    ELSE Ok(SortDesc(xs))

(***************************************************************************)
(* remove_duplicates (run.py 113-145).                                     *)
(***************************************************************************)
DedupKey(car) == <<car.year, car.make, car.model>>

\* A dict keeps its keys in insertion order, and the "seen" loops of the
\* consolidator keep first occurrences: xs without its repeated elements.
RECURSIVE FirstSeen(_)
FirstSeen(xs) ==
    IF xs = <<>> THEN <<>>
    ELSE LET before == FirstSeen(SubSeq(xs, 1, Len(xs) - 1))
             x == xs[Len(xs)]
         IN IF \E i \in 1..Len(before) : before[i] = x THEN before
            ELSE Append(before, x)

\* Mutant of GroupKeys: the groups are visited last-inserted first.
GroupKeysLastFirst(cs) ==
    LET ks == FirstSeen([i \in 1..Len(cs) |-> DedupKey(cs[i])]) IN
    [i \in 1..Len(ks) |-> ks[Len(ks) + 1 - i]]

\* The keys of car_groups (lines 119-126), in the order the loop of line 132
\* visits them.
GroupKeys(cs) == FirstSeen([i \in 1..Len(cs) |-> DedupKey(cs[i])])

Group(cs, k) == SelectSeq(cs, LAMBDA c : DedupKey(c) = k)

\* The loop of lines 132-141 over the keys still to visit.
RECURSIVE KeepNewest(_, _, _)
KeepNewest(cs, keys, acc) ==
    IF keys = <<>> THEN Ok(acc)
    ELSE LET group == Group(cs, Head(keys)) IN
         IF Len(group) = 1
         THEN KeepNewest(cs, Tail(keys), Append(acc, group[1]))
         ELSE LET group_sorted == sorted_by_date_desc(group) IN
              IF group_sorted.exc THEN Raised
              ELSE KeepNewest(cs, Tail(keys), Append(acc, group_sorted.val[1]))

remove_duplicates(cs) == KeepNewest(cs, GroupKeys(cs), <<>>)

(***************************************************************************)
(* convert_to_site_format (run.py 159-168).                                *)
(***************************************************************************)
convert_to_site_format(cs) ==
    LET u == remove_duplicates(cs) IN
    IF u.exc THEN Raised ELSE sorted_by_date_desc(u.val)

(***************************************************************************)
(* save_to_lqk_consolidated (run.py 176-238): the list it dumps.           *)
(***************************************************************************)
\* Code points, for Python's string order.
Ord(c) ==
    CASE c = " " -> 32 [] c = "(" -> 40 [] c = ")" -> 41 [] c = "," -> 44
      [] c = "/" -> 47 [] c \in Digits -> 48 + DigitVal(c)
      [] c = "A" -> 65 [] c = "B" -> 66 [] c = "C" -> 67 [] c = "L" -> 76
      [] c = "a" -> 97 [] c = "b" -> 98 [] c = "c" -> 99

RECURSIVE StrLess(_, _)
StrLess(a, b) ==
    IF b = <<>> THEN FALSE
    ELSE IF a = <<>> THEN TRUE
    ELSE IF Head(a) = Head(b) THEN StrLess(Tail(a), Tail(b))
    ELSE Ord(Head(a)) < Ord(Head(b))

\* str(n) for n >= 0.
RECURSIVE IntToStr(_)
IntToStr(n) ==
    LET d == <<"0", "1", "2", "3", "4", "5", "6", "7", "8", "9">>[(n % 10) + 1] IN
    IF n < 10 THEN <<d>> ELSE Append(IntToStr(n \div 10), d)

CarName(car) == car.make \o <<" ">> \o car.model

ConsKey(car) == <<CarName(car), car.year>>

\* The keys of car_groups (lines 182-191) in insertion order.
ConsKeys(data) == FirstSeen([i \in 1..Len(data) |-> ConsKey(data[i])])

\* car_groups[key]['dates'] and car_groups[key]['locations'].
GroupDates(data, k) ==
    LET g == SelectSeq(data, LAMBDA c : ConsKey(c) = k) IN
    [i \in 1..Len(g) |-> g[i].available]

GroupLocations(data, k) ==
    LET g == SelectSeq(data, LAMBDA c : ConsKey(c) = k) IN
    [i \in 1..Len(g) |-> g[i].location]

\* ", ".join(f"({i+1}) {v}" for i, v in enumerate(values)); for one value
\* this is the f"(1) {v}" of lines 214 and 221.
RECURSIVE Numbered(_)
Numbered(values) ==
    IF values = <<>> THEN <<>>
    ELSE LET n == Len(values)
             item == <<"(">> \o IntToStr(n) \o <<")", " ">> \o values[n]
         IN IF n = 1 THEN item
            ELSE Numbered(SubSeq(values, 1, n - 1)) \o <<",", " ">> \o item

\* Mutant of ConsEntry: count is the number of distinct locations.
ConsEntryCountsLocations(data, k) ==
    LET unique_dates == FirstSeen(GroupDates(data, k))
        unique_locations == FirstSeen(GroupLocations(data, k))
    IN [car |-> k[1], year |-> k[2],
        count |-> IntToStr(Len(unique_locations)),
        dates |-> Numbered(unique_dates),
        locations |-> Numbered(unique_locations)]

ConsEntry(data, k) ==
    LET unique_dates == FirstSeen(GroupDates(data, k))
        unique_locations == FirstSeen(GroupLocations(data, k))
    IN [car |-> k[1], year |-> k[2],
        count |-> IntToStr(Len(unique_dates)),
        dates |-> Numbered(unique_dates),
        locations |-> Numbered(unique_locations)]

\* Python's tuple order on (car_name, year).
ConsKeyLess(a, b) == StrLess(a[1], b[1]) \/ (a[1] = b[1] /\ StrLess(a[2], b[2]))

RECURSIVE InsertAsc(_, _)
InsertAsc(sorted, k) ==
    IF sorted = <<>> THEN <<k>>
    ELSE IF ConsKeyLess(k, Head(sorted)) THEN <<k>> \o sorted
    ELSE <<Head(sorted)>> \o InsertAsc(Tail(sorted), k)

RECURSIVE SortKeysAsc(_)
SortKeysAsc(ks) ==
    IF ks = <<>> THEN <<>>
    ELSE InsertAsc(SortKeysAsc(SubSeq(ks, 1, Len(ks) - 1)), ks[Len(ks)])

\* Lines 195-234: the entries in sorted key order (the sort of line 234
\* finds them already in order).
Consolidate(data) ==
    LET ks == SortKeysAsc(ConsKeys(data)) IN
    [i \in 1..Len(ks) |-> ConsEntry(data, ks[i])]

(***************************************************************************)
(* Specification SpecParseDate: parse_date on every string of at most      *)
(* MaxDateLen characters over DateChars.                                   *)
(***************************************************************************)
DateChars == {"1", "2", "/", "a"}
DateStrings == StrUpTo(DateChars, MaxDateLen)

NotRun == Ok(<<>>)

\* The variables a specification does not use keep these values.
DateIdle == date_str = <<>> /\ date_res = NotRun

CoreIdle ==
    /\ cars = <<>>
    /\ unique_cars = NotRun
    /\ unique_twice = NotRun
    /\ cars_sorted = NotRun
    /\ consolidated = <<>>

ExtractIdle == input = <<>> /\ current_car = <<>> /\ parsed = <<>>

MainIdle ==
    /\ files = <<>>
    /\ all_cars = <<>>
    /\ cars_final = <<>>
    /\ site_json = <<>>
    /\ lqk_json = <<>>
    /\ status = "running"

InitParseDate ==
    /\ pc = "parse_date"
    /\ date_str \in DateStrings
    /\ date_res = NotRun
    /\ CoreIdle /\ ExtractIdle /\ MainIdle

CallParseDate ==
    /\ pc = "parse_date"
    /\ date_res' = parse_date(date_str)
    /\ pc' = "parse_date_done"
    /\ UNCHANGED <<date_str, coreVars, extractVars, mainVars>>

SpecParseDate == InitParseDate /\ [][CallParseDate]_vars

(***************************************************************************)
(* Specification SpecCore: the deduplicator, the flat-listing sort and the *)
(* consolidator on every list of at most MaxCars records of CoreCars.      *)
(***************************************************************************)
CoreInputs == StrUpTo(CoreCars, MaxCars)

InitCore ==
    /\ pc = "core"
    /\ cars \in CoreInputs
    /\ unique_cars = NotRun
    /\ unique_twice = NotRun
    /\ cars_sorted = NotRun
    /\ consolidated = <<>>
    /\ DateIdle /\ ExtractIdle /\ MainIdle

CallRemoveDuplicates ==
    /\ pc = "core"
    /\ unique_cars' = remove_duplicates(cars)
    /\ pc' = "deduped"
    /\ UNCHANGED <<dateVars, extractVars, mainVars, cars, unique_twice, cars_sorted, consolidated>>

\* remove_duplicates(remove_duplicates(cars)): an exception of the inner
\* call is the outcome of the whole expression.
CallRemoveDuplicatesAgain ==
    /\ pc = "deduped"
    /\ unique_twice' = IF unique_cars.exc THEN Raised
                       ELSE remove_duplicates(unique_cars.val)
    /\ pc' = "deduped_twice"
    /\ UNCHANGED <<dateVars, extractVars, mainVars, cars, unique_cars, cars_sorted, consolidated>>

CallConvertToSiteFormat ==
    /\ pc = "core"
    /\ cars_sorted' = convert_to_site_format(cars)
    /\ pc' = "converted"
    /\ UNCHANGED <<dateVars, extractVars, mainVars, cars, unique_cars, unique_twice, consolidated>>

CallConsolidate ==
    /\ pc = "core"
    /\ consolidated' = Consolidate(cars)
    /\ pc' = "consolidated"
    /\ UNCHANGED <<dateVars, extractVars, mainVars, cars, unique_cars, unique_twice, cars_sorted>>

NextCore ==
    \/ CallRemoveDuplicates
    \/ CallRemoveDuplicatesAgain
    \/ CallConvertToSiteFormat
    \/ CallConsolidate

SpecCore == InitCore /\ [][NextCore]_vars

(***************************************************************************)
(* What the claims say, stated without the operators of the code.          *)
(***************************************************************************)
\* The positions of "/" in s.
SlashAt(s) == {i \in 1..Len(s) : s[i] = "/"}

\* s has the form M/D/YYYY of section 4.3: exactly three parts between
\* "/", each of which converts to an integer.
ValidDate(s) ==
    /\ Cardinality(SlashAt(s)) = 2
    /\ LET i == CHOOSE x \in SlashAt(s) : \A y \in SlashAt(s) : x <= y
           j == CHOOSE x \in SlashAt(s) : \A y \in SlashAt(s) : y <= x
       IN /\ IsIntLiteral(SubSeq(s, 1, i - 1))
          /\ IsIntLiteral(SubSeq(s, i + 1, j - 1))
          /\ IsIntLiteral(SubSeq(s, j + 1, Len(s)))

\* The rank section 4.3 gives to s: (year, month, day), or the sentinel.
ClaimRank(s) ==
    IF ValidDate(s)
    THEN LET i == CHOOSE x \in SlashAt(s) : \A y \in SlashAt(s) : x <= y
             j == CHOOSE x \in SlashAt(s) : \A y \in SlashAt(s) : y <= x
         IN <<IntOf(SubSeq(s, j + 1, Len(s))), IntOf(SubSeq(s, 1, i - 1)),
              IntOf(SubSeq(s, i + 1, j - 1))>>
    ELSE ZeroRank

RankGeq(a, b) == ~RankLess(a, b)

KeysOf(cs) == {<<cs[i].year, cs[i].make, cs[i].model>> : i \in 1..Len(cs)}

IndicesOf(cs, k) ==
    {i \in 1..Len(cs) : <<cs[i].year, cs[i].make, cs[i].model>> = k}

\* C1: parse_date is total: it never raises, returns (year, month, day) for
\* a valid M/D/YYYY string and (0, 0, 0) for every other string.
C1_ParseDateTotal ==
    pc = "parse_date_done" =>
        /\ ~date_res.exc
        /\ date_res.val = ClaimRank(date_str)

\* C2: remove_duplicates returns exactly one record per distinct
\* (year, make, model) key of its input; that record is the member of the
\* key's group whose date rank is maximal and, among the records of maximal
\* rank, the first in input order.
C2_OnePerKeyNewestFirst ==
    pc = "deduped" =>
        /\ ~unique_cars.exc
        /\ LET out == unique_cars.val IN
           /\ \A i \in 1..Len(out) : DedupKey(out[i]) \in KeysOf(cars)
           /\ \A k \in KeysOf(cars) :
                /\ Cardinality(IndicesOf(out, k)) = 1
                /\ \E j \in IndicesOf(cars, k) :
                     /\ \A i \in IndicesOf(out, k) : out[i] = cars[j]
                     /\ \A m \in IndicesOf(cars, k) :
                          RankGeq(ClaimRank(cars[j].available),
                                  ClaimRank(cars[m].available))
                     /\ \A m \in IndicesOf(cars, k) :
                          m < j => RankLess(ClaimRank(cars[m].available),
                                            ClaimRank(cars[j].available))

\* Position of record r in the list xs of distinct records.
PosIn(xs, r) == CHOOSE i \in 1..Len(xs) : xs[i] = r

\* C7: the flat listing is a permutation of the deduplicator's output,
\* sorted by date rank descending (rank (0,0,0) last), records of equal rank
\* in the order they had in the deduplicator's output.
C7_FlatListingSortedStable ==
    pc = "converted" =>
        /\ ~cars_sorted.exc
        /\ LET u == remove_duplicates(cars).val
               flat == cars_sorted.val
           IN /\ Len(flat) = Len(u)
              /\ \A i \in 1..Len(u) : \E j \in 1..Len(flat) : flat[j] = u[i]
              /\ \A i \in 1..(Len(flat) - 1) :
                   RankGeq(ClaimRank(flat[i].available),
                           ClaimRank(flat[i + 1].available))
              /\ \A i, j \in 1..Len(flat) :
                   (i < j /\ ClaimRank(flat[i].available) = ClaimRank(flat[j].available))
                       => PosIn(u, flat[i]) < PosIn(u, flat[j])

\* C9: deduplication is idempotent: remove_duplicates(remove_duplicates(L))
\* has the outcome of remove_duplicates(L), the same records in the same
\* order.
C9_DedupIdempotent ==
    pc = "deduped_twice" => unique_twice = unique_cars

C9_Witness ==
    /\ pc = "deduped_twice"
    /\ ~unique_cars.exc
    /\ Len(unique_cars.val) >= 2
    /\ Len(unique_cars.val) < Len(cars)

\* The records of cs whose make + " " + model and year are name and year.
ConsGroup(cs, name, year) ==
    SelectSeq(cs, LAMBDA c : c.make \o <<" ">> \o c.model = name /\ c.year = year)

FirstIndex(values, v) ==
    CHOOSE i \in 1..Len(values) : values[i] = v /\ \A j \in 1..(i - 1) : values[j] # v

\* The distinct elements of values, each once, in first-occurrence order.
DistinctInOrder(values) ==
    LET S == {values[i] : i \in 1..Len(values)} IN
    CHOOSE D \in [1..Cardinality(S) -> S] :
        \A i, j \in 1..Cardinality(S) :
            i < j => FirstIndex(values, D[i]) < FirstIndex(values, D[j])

\* "(i) v_i, (i+1) v_i+1, ..." for the values from position i on.
RECURSIVE ItemsFrom(_, _)
ItemsFrom(D, i) ==
    IF i > Len(D) THEN <<>>
    ELSE <<"(">> \o IntToStr(i) \o <<")", " ">> \o D[i]
         \o (IF i < Len(D) THEN <<",", " ">> ELSE <<>>) \o ItemsFrom(D, i + 1)

\* C6: the consolidator emits for each (make + " " + model, year) group one
\* entry whose dates and locations list every distinct date and every
\* distinct location of the group exactly once, in first-occurrence order,
\* numbered (1)..(n), and whose count is the number of distinct dates.
C6_ConsolidationKeepsDistinctValues ==
    pc = "consolidated" =>
        \A r \in 1..Len(cars) :
            LET name == cars[r].make \o <<" ">> \o cars[r].model
                year == cars[r].year
                g == ConsGroup(cars, name, year)
                gdates == [i \in 1..Len(g) |-> g[i].available]
                glocs == [i \in 1..Len(g) |-> g[i].location]
                es == {i \in 1..Len(consolidated) :
                          consolidated[i].car = name /\ consolidated[i].year = year}
            IN /\ Cardinality(es) = 1
               /\ \A i \in es :
                    /\ consolidated[i].dates = ItemsFrom(DistinctInOrder(gdates), 1)
                    /\ consolidated[i].locations = ItemsFrom(DistinctInOrder(glocs), 1)
                    /\ consolidated[i].count =
                           IntToStr(Cardinality({gdates[j] : j \in 1..Len(g)}))

\* Two records of one group with the same date and the locations L1, L2:
\* count "1" and locations "(1) L1, (2) L2".
C6_Witness ==
    /\ pc = "consolidated"
    /\ Len(cars) = 2
    /\ DedupKey(cars[1]) = DedupKey(cars[2])
    /\ cars[1].available = cars[2].available
    /\ cars[1].location = Loc1 /\ cars[2].location = Loc2
    /\ Len(consolidated) = 1
    /\ consolidated[1].count = <<"1">>
    /\ consolidated[1].locations =
           <<"(", "1", ")", " ", "L", "1", ",", " ", "(", "2", ")", " ", "L", "2">>

(***************************************************************************)
(* parse_lqk_file (run.py 24-74).                                          *)
(*                                                                         *)
(* A line of the file, already stripped, is represented by what the three  *)
(* regular expressions find on it:                                         *)
(*   car   <<>>, or <<year, rest>> when the line is four digits, then      *)
(*         rest, then "available for parts" (rest over letters and spaces);*)
(*   sec   <<>>, or the three groups of the Section/Row/Space expression;  *)
(*   avail <<>>, or <<the group of the Available expression>>.             *)
(* The three tests are independent ifs: one line can match several.        *)
(***************************************************************************)
RECURSIVE LStrip(_)
LStrip(s) == IF s # <<>> /\ Head(s) = " " THEN LStrip(Tail(s)) ELSE s

RECURSIVE RStrip(_)
RStrip(s) ==
    IF s # <<>> /\ s[Len(s)] = " " THEN RStrip(SubSeq(s, 1, Len(s) - 1)) ELSE s

\* str.strip(): the only whitespace of the model is the space.
Strip(s) == RStrip(LStrip(s))

\* The longest prefix of s without a space.
RECURSIVE Token(_)
Token(s) == IF s = <<>> \/ Head(s) = " " THEN <<>> ELSE <<Head(s)>> \o Token(Tail(s))

\* Line 39 on the text between the year and "available for parts":
\* \s+ ([^ ]+) \s+ (.+?) \s+ .  The make is the first run of non-spaces;
\* what follows must begin and end with a space and hold a character
\* between them (which may itself be a space); group 3 is stripped at 48.
CarMatch(rest) ==
    LET body == LStrip(rest)
        make == Token(body)
        after == SubSeq(body, Len(make) + 1, Len(body))
    IN IF /\ Len(body) < Len(rest)
          /\ make # <<>>
          /\ Len(after) >= 3
          /\ after[1] = " "
          /\ after[Len(after)] = " "
       THEN <<[make |-> make, model |-> Strip(after)]>>
       ELSE <<>>

\* Lines 60-63.
LocationOf(sec) ==
    Strip(Strip(sec[1]) \o <<" ">> \o Strip(sec[2]) \o <<" ">> \o Strip(sec[3]))

\* Mutant of LqkFlush: the open record is never appended.
LqkFlushNothing(cs, current) == cs

\* Lines 42-43 and 71-72: a non-empty current_car always has the key 'year'.
LqkFlush(cs, current) == IF current # <<>> THEN Append(cs, current[1]) ELSE cs

\* The body of the loop, lines 36-68, on one line.
LqkStep(st, line) ==
    LET m == IF line.car = <<>> THEN <<>> ELSE CarMatch(line.car[2])
        s1 == IF m # <<>>
              THEN [cars |-> LqkFlush(st.cars, st.current),
                    current |-> <<Car(line.car[1], m[1].make, m[1].model, <<>>, <<>>)>>]
              ELSE st
        s2 == IF line.sec # <<>> /\ s1.current # <<>>
              THEN [s1 EXCEPT !.current =
                       <<[s1.current[1] EXCEPT !.location = LocationOf(line.sec)]>>]
              ELSE s1
    IN IF line.avail # <<>> /\ s2.current # <<>>
       THEN [s2 EXCEPT !.current =
                <<[s2.current[1] EXCEPT !.available = Strip(line.avail[1])]>>]
       ELSE s2

RECURSIVE LqkLoop(_, _)
LqkLoop(st, lines) ==
    IF lines = <<>> THEN st ELSE LqkLoop(LqkStep(st, Head(lines)), Tail(lines))

\* file is [exists, content]: the whole function.
parse_lqk_file(file) ==
    IF ~file.exists THEN <<>>
    ELSE LET st == LqkLoop([cars |-> <<>>, current |-> <<>>], file.content)
         IN LqkFlush(st.cars, st.current)

(***************************************************************************)
(* parse_csv_file (run.py 76-107).                                         *)
(*                                                                         *)
(* A row of the DictReader is [short, car, year, location, date]: the      *)
(* values row.get finds (the default '' for a column the header lacks);    *)
(* short is TRUE for a row with fewer cells than the header, where         *)
(* row.get gives None and .strip() raises inside the try.                  *)
(***************************************************************************)
\* Mutant of SplitFirstSpace: car_name.rsplit(' ', 1), the split at the
\* last space.
SplitLastSpace(s) ==
    LET spaces == {i \in 1..Len(s) : s[i] = " "} IN
    IF spaces = {} THEN <<s>>
    ELSE LET i == CHOOSE x \in spaces : \A y \in spaces : y <= x IN
         <<SubSeq(s, 1, i - 1), SubSeq(s, i + 1, Len(s))>>

\* car_name.split(' ', 1).
SplitFirstSpace(s) ==
    LET first == Token(s) IN
    IF Len(first) = Len(s) THEN <<s>>
    ELSE <<first, SubSeq(s, Len(first) + 2, Len(s))>>

\* Lines 91-103.
CsvCar(row) ==
    LET parts == SplitFirstSpace(Strip(row.car)) IN
    Car(Strip(row.year), parts[1], IF Len(parts) > 1 THEN parts[2] ELSE <<>>,
        Strip(row.location), Strip(row.date))

\* The loop of line 89 under the try: it ends at the first row that raises,
\* and line 107 returns the cars appended before it.
RECURSIVE CsvLoop(_, _)
CsvLoop(cs, rows) ==
    IF rows = <<>> \/ Head(rows).short THEN cs
    ELSE CsvLoop(Append(cs, CsvCar(Head(rows))), Tail(rows))

parse_csv_file(file) ==
    IF ~file.exists THEN <<>> ELSE CsvLoop(<<>>, file.content)

(***************************************************************************)
(* Specification SpecExtract: one extractor reads a file of at most        *)
(* MaxLines lines (rows), one per step.                                    *)
(***************************************************************************)
NameAB == <<" ", "A", " ", "B", " ">>                   \* " A B "
NameABC == <<" ", "A", " ", " ", "B", " ", "C", " ">>   \* " A  B C "
NameA == <<" ", "A", " ">>                              \* " A ": no model, no match
Sec1 == <<<<"A">>, <<"5">>, <<"3">>>>
Sec2 == <<<<"B">>, <<"2">>, <<"7">>>>

\* Lines matching at most one of the three expressions, and start lines
\* that carry Section or Available text after "available for parts".
LqkLineShapes ==
    [car : {<<>>, <<Y2015, NameAB>>, <<Y2020, NameABC>>, <<Y2015, NameA>>},
     sec : {<<>>, Sec1, Sec2},
     avail : {<<>>, <<DEarly>>, <<DLate>>}]

LqkLines ==
    {l \in LqkLineShapes :
        \/ l.car = <<>> /\ l.sec = <<>>
        \/ l.car = <<>> /\ l.avail = <<>>
        \/ l.sec = <<>> /\ l.avail = <<>>
        \/ l.car = <<Y2015, NameAB>> /\ l.sec = Sec2 /\ l.avail = <<>>
        \/ l.car = <<Y2015, NameAB>> /\ l.sec = <<>> /\ l.avail = <<DLate>>}

CsvRows ==
    [short : {FALSE},
     car : {<<"A", " ", "B">>, <<" ", "A", " ", " ", "B", " ", "C">>, <<"A">>},
     year : {Y2015, <<" ", " ">>},
     location : {<<" ", "L", "1">>},
     date : {DEarly}]
    \cup {[short |-> TRUE, car |-> <<>>, year |-> <<>>, location |-> <<>>, date |-> <<>>]}

InitExtract ==
    /\ pc \in {"lqk_start", "csv_start"}
    /\ input = <<>>
    /\ current_car = <<>>
    /\ parsed = <<>>
    /\ DateIdle /\ CoreIdle /\ MainIdle

\* Lines 30-32: the file does not exist.
LqkMissing ==
    /\ pc = "lqk_start"
    /\ pc' = "lqk_missing"
    /\ UNCHANGED <<dateVars, coreVars, extractVars, mainVars>>

LqkOpen ==
    /\ pc = "lqk_start"
    /\ pc' = "lqk_loop"
    /\ UNCHANGED <<dateVars, coreVars, extractVars, mainVars>>

LqkReadLine ==
    /\ pc = "lqk_loop"
    /\ Len(input) < MaxLines
    /\ \E line \in LqkLines :
        LET st == LqkStep([cars |-> parsed, current |-> current_car], line) IN
        /\ input' = Append(input, line)
        /\ parsed' = st.cars
        /\ current_car' = st.current
    /\ UNCHANGED <<pc, dateVars, coreVars, mainVars>>

\* Lines 70-74.
LqkEndOfFile ==
    /\ pc = "lqk_loop"
    /\ parsed' = LqkFlush(parsed, current_car)
    /\ pc' = "lqk_returned"
    /\ UNCHANGED <<input, current_car, dateVars, coreVars, mainVars>>

\* Lines 81-83.
CsvMissing ==
    /\ pc = "csv_start"
    /\ pc' = "csv_missing"
    /\ UNCHANGED <<dateVars, coreVars, extractVars, mainVars>>

CsvOpen ==
    /\ pc = "csv_start"
    /\ pc' = "csv_loop"
    /\ UNCHANGED <<dateVars, coreVars, extractVars, mainVars>>

\* One turn of the loop of line 89; a short row raises, line 104 catches it
\* and line 107 returns the cars built so far.
CsvReadRow ==
    /\ pc = "csv_loop"
    /\ Len(input) < MaxLines
    /\ \E row \in CsvRows :
        /\ input' = Append(input, row)
        /\ parsed' = CsvLoop(parsed, <<row>>)
        /\ pc' = IF row.short THEN "csv_failed" ELSE "csv_loop"
    /\ UNCHANGED <<current_car, dateVars, coreVars, mainVars>>

CsvEndOfFile ==
    /\ pc = "csv_loop"
    /\ pc' = "csv_returned"
    /\ UNCHANGED <<dateVars, coreVars, extractVars, mainVars>>

NextExtract ==
    \/ LqkMissing
    \/ LqkOpen
    \/ LqkReadLine
    \/ LqkEndOfFile
    \/ CsvMissing
    \/ CsvOpen
    \/ CsvReadRow
    \/ CsvEndOfFile

SpecExtract == InitExtract /\ [][NextExtract]_vars

\* The start lines of the file: those the expression of line 39 matches.
IsStartLine(line) == line.car # <<>> /\ CarMatch(line.car[2]) # <<>>

StartLines(lines) == {i \in 1..Len(lines) : IsStartLine(lines[i])}

\* The n-th start line, and the last line before the start line after i.
NthStart(lines, n) ==
    CHOOSE i \in StartLines(lines) :
        Cardinality({j \in StartLines(lines) : j <= i}) = n

BlockEnd(lines, i) ==
    LET later == {j \in StartLines(lines) : j > i} IN
    IF later = {} THEN Len(lines)
    ELSE (CHOOSE j \in later : \A k \in later : j <= k) - 1

Last(S) == CHOOSE i \in S : \A j \in S : j <= i

\* The record of the start line i: its year, make and model, and the values
\* of the last Section line and of the last Available line from line i to
\* the line before the next start line (empty when there is none).
BlockRecord(lines, i) ==
    LET secs == {j \in i..BlockEnd(lines, i) : lines[j].sec # <<>>}
        avails == {j \in i..BlockEnd(lines, i) : lines[j].avail # <<>>}
        m == CarMatch(lines[i].car[2])[1]
    IN Car(lines[i].car[1], m.make, m.model,
           IF secs = {} THEN <<>> ELSE LocationOf(lines[Last(secs)].sec),
           IF avails = {} THEN <<>> ELSE Strip(lines[Last(avails)].avail[1]))

\* C3: parse_lqk_file emits exactly one record per start line, in start-line
\* order; a start line flushes the open record before opening the new one
\* and the end of the input flushes the last one; a record's location and
\* availableDate are those of the last Section line and the last Available
\* line from its start line up to the next start line (empty if none), and
\* Section/Available lines before the first start line change no record.
C3_OneRecordPerStartLine ==
    LET n == Cardinality(StartLines(input)) IN
    /\ pc = "lqk_returned" =>
         /\ Len(parsed) = n
         /\ \A k \in 1..n : parsed[k] = BlockRecord(input, NthStart(input, k))
    /\ pc = "lqk_loop" =>
         /\ Len(parsed) = (IF n = 0 THEN 0 ELSE n - 1)
         /\ \A k \in 1..Len(parsed) : parsed[k] = BlockRecord(input, NthStart(input, k))
         /\ (n = 0) = (current_car = <<>>)
         /\ n > 0 => current_car = <<BlockRecord(input, NthStart(input, n))>>

C3_Witness ==
    /\ pc = "lqk_returned"
    /\ Len(input) = 3
    /\ ~IsStartLine(input[1]) /\ input[1].sec # <<>>
    /\ IsStartLine(input[2]) /\ IsStartLine(input[3])
    /\ Len(parsed) = 2
    /\ parsed[1].location = <<>>
    /\ parsed[2].available = DLate

\* C4: every record either extractor emits has a non-empty year.
C4_EmittedYearNonEmpty ==
    \A i \in 1..Len(parsed) : parsed[i].year # <<>>

(***************************************************************************)
(* main (run.py 273-353), up to the end of step 4; the prompt and the      *)
(* server that follow it are not modelled.                                 *)
(*                                                                         *)
(* files is [lqk, csvs, old]: LQK.txt, the two CSV files of line 276, each *)
(* [exists, content], and whether the two output files exist from an       *)
(* earlier run.  A file that cannot be opened for writing makes open raise *)
(* at line 173 or 237; main catches nothing, so the exception ends it.     *)
(***************************************************************************)
\* Mutant of NoData: the check of line 305 never stops the run.
NoDataNever(cs) == FALSE

\* Line 305: not all_cars.
NoData(cs) == cs = <<>>

\* What an output file holds before the run when it exists.
OldContent == <<[car |-> <<"o", "l", "d">>]>>

NameABCTight == <<" ", "A", " ", "B", " ", "C", " ">>     \* " A B C "

MainLines ==
    {[car |-> <<Y2015, NameABCTight>>, sec |-> <<>>, avail |-> <<>>],
     [car |-> <<Y2015, NameAB>>, sec |-> <<>>, avail |-> <<>>],
     [car |-> <<>>, sec |-> <<>>, avail |-> <<DEarly>>]}

MainRows ==
    {[short |-> FALSE, car |-> <<"A", " ", "B", " ", "C">>, year |-> Y2015,
      location |-> Loc2, date |-> DLate],
     [short |-> FALSE, car |-> <<"A", " ", "B">>, year |-> Y2015,
      location |-> Loc2, date |-> DBad],
     [short |-> TRUE, car |-> <<>>, year |-> <<>>, location |-> <<>>, date |-> <<>>]}

FilesOf(contents) ==
    {[exists |-> FALSE, content |-> <<>>]}
        \cup {[exists |-> TRUE, content |-> c] : c \in contents}

Init ==
    /\ pc = "main_parse_txt"
    /\ files \in [lqk : FilesOf(StrUpTo(MainLines, MaxFileLen)),
                  csvs : [1..2 -> FilesOf(StrUpTo(MainRows, MaxFileLen))],
                  old : BOOLEAN]
    /\ all_cars = <<>>
    /\ cars_final = <<>>
    /\ site_json = (IF files.old THEN <<OldContent>> ELSE <<>>)
    /\ lqk_json = (IF files.old THEN <<OldContent>> ELSE <<>>)
    /\ status = "running"
    /\ DateIdle /\ CoreIdle /\ ExtractIdle

\* Step 1, lines 287-292.
MainParseTxt ==
    /\ pc = "main_parse_txt"
    /\ all_cars' = all_cars \o parse_lqk_file(files.lqk)
    /\ pc' = "main_parse_csv"
    /\ UNCHANGED <<files, cars_final, site_json, lqk_json, status,
                   dateVars, coreVars, extractVars>>

\* Step 2, lines 294-303: the loop over the two CSV files.
MainParseCsv ==
    /\ pc = "main_parse_csv"
    /\ all_cars' = all_cars \o parse_csv_file(files.csvs[1])
                            \o parse_csv_file(files.csvs[2])
    /\ pc' = "main_check"
    /\ UNCHANGED <<files, cars_final, site_json, lqk_json, status,
                   dateVars, coreVars, extractVars>>

\* Lines 305-307.
MainNoData ==
    /\ pc = "main_check"
    /\ NoData(all_cars)
    /\ status' = "returned_1"
    /\ pc' = "main_exit"
    /\ UNCHANGED <<files, all_cars, cars_final, site_json, lqk_json,
                   dateVars, coreVars, extractVars>>

\* Step 3, lines 311-327; an exception of convert_to_site_format ends main.
MainConvert ==
    /\ pc = "main_check"
    /\ ~NoData(all_cars)
    /\ LET r == convert_to_site_format(all_cars) IN
       IF r.exc
       THEN /\ status' = "raised_convert"
            /\ pc' = "main_exit"
            /\ UNCHANGED cars_final
       ELSE /\ cars_final' = r.val
            /\ pc' = "main_save_json"
            /\ UNCHANGED status
    /\ UNCHANGED <<files, all_cars, site_json, lqk_json,
                   dateVars, coreVars, extractVars>>

\* Line 331: save_to_json writes the flat listing.
MainSaveJson ==
    /\ pc = "main_save_json"
    /\ site_json' = <<cars_final>>
    /\ pc' = "main_save_lqk"
    /\ UNCHANGED <<files, all_cars, cars_final, lqk_json, status,
                   dateVars, coreVars, extractVars>>

\* Line 331: the open of line 173 raises.
MainSaveJsonFails ==
    /\ pc = "main_save_json"
    /\ status' = "raised_save_json"
    /\ pc' = "main_exit"
    /\ UNCHANGED <<files, all_cars, cars_final, site_json, lqk_json,
                   dateVars, coreVars, extractVars>>

\* Line 334: save_to_lqk_consolidated writes the consolidated listing, and
\* main goes on to return 0.
MainSaveLqk ==
    /\ pc = "main_save_lqk"
    /\ lqk_json' = <<Consolidate(cars_final)>>
    /\ status' = "returned_0"
    /\ pc' = "main_exit"
    /\ UNCHANGED <<files, all_cars, cars_final, site_json,
                   dateVars, coreVars, extractVars>>

\* Mutant of MainSaveLqkFails: the failed write takes the flat listing back.
MainSaveLqkFailsRollsBack ==
    /\ pc = "main_save_lqk"
    /\ status' = "raised_save_lqk"
    /\ pc' = "main_exit"
    /\ site_json' = (IF files.old THEN <<OldContent>> ELSE <<>>)
    /\ UNCHANGED <<files, all_cars, cars_final, lqk_json,
                   dateVars, coreVars, extractVars>>

\* Line 334: the open of line 237 raises.
MainSaveLqkFails ==
    /\ pc = "main_save_lqk"
    /\ status' = "raised_save_lqk"
    /\ pc' = "main_exit"
    /\ UNCHANGED <<files, all_cars, cars_final, site_json, lqk_json,
                   dateVars, coreVars, extractVars>>

Next ==
    \/ MainParseTxt
    \/ MainParseCsv
    \/ MainNoData
    \/ MainConvert
    \/ MainSaveJson
    \/ MainSaveJsonFails
    \/ MainSaveLqk
    \/ MainSaveLqkFails

Spec == Init /\ [][Next]_vars

\* The content of the output files before the run.
OldFile == IF files.old THEN <<OldContent>> ELSE <<>>

NoSourceHasRecords ==
    /\ parse_lqk_file(files.lqk) = <<>>
    /\ \A i \in 1..2 : parse_csv_file(files.csvs[i]) = <<>>

\* C8: when every source contributes zero records, main returns 1 before
\* the deduplication and the save steps, and neither output file is created
\* or overwritten.
C8_NoDataNoOutput ==
    NoSourceHasRecords =>
        /\ pc \in {"main_parse_txt", "main_parse_csv", "main_check", "main_exit"}
        /\ pc = "main_exit" => status = "returned_1"
        /\ site_json = OldFile
        /\ lqk_json = OldFile
        /\ cars_final = <<>>

\* The report file has no start line, one CSV file exists and fails on its
\* first row, the other one is missing, and the outputs of an earlier run
\* are in place.
C8_Witness ==
    /\ pc = "main_exit"
    /\ status = "returned_1"
    /\ files.lqk.exists
    /\ files.csvs[1].exists /\ files.csvs[1].content # <<>>
    /\ ~files.csvs[2].exists
    /\ files.old
    /\ site_json = <<OldContent>>

\* C10: in main every make of an extracted record is free of spaces, so
\* (year, make, model) -> (make + " " + model, year) is injective on the
\* deduplicated records: the consolidated listing has as many entries as the
\* flat listing, and each entry has count "1", dates "(1) <date>" and
\* locations "(1) <location>" of one record.
C10_OneRecordPerConsolidatedEntry ==
    /\ \A i \in 1..Len(all_cars) :
         \A j \in 1..Len(all_cars[i].make) : all_cars[i].make[j] # " "
    /\ status = "returned_0" =>
         LET flat == site_json[1]
             entries == lqk_json[1]
         IN /\ Len(entries) = Len(flat)
            /\ \A i, j \in 1..Len(flat) :
                 i # j => <<flat[i].make \o <<" ">> \o flat[i].model, flat[i].year>>
                          # <<flat[j].make \o <<" ">> \o flat[j].model, flat[j].year>>
            /\ \A i \in 1..Len(entries) :
                 /\ entries[i].count = <<"1">>
                 /\ \E r \in 1..Len(flat) :
                      /\ entries[i].car = flat[r].make \o <<" ">> \o flat[r].model
                      /\ entries[i].year = flat[r].year
                      /\ entries[i].dates = <<"(", "1", ")", " ">> \o flat[r].available
                      /\ entries[i].locations = <<"(", "1", ")", " ">> \o flat[r].location

\* Both sources gave records, duplicates were removed, two vehicles remain.
C10_Witness ==
    /\ status = "returned_0"
    /\ Len(site_json[1]) = 2
    /\ Len(lqk_json[1]) = 2
    /\ Len(all_cars) > 2
    /\ \E i, j \in 1..Len(all_cars) :
         all_cars[i].location = Loc2 /\ all_cars[j].location # Loc2

=============================================================================
